---- MODULE Spec2Model ----
(***************************************************************************)
(* Model of the zonneplan-chat-cli question-answering pipeline.            *)
(*                                                                         *)
(*   Spec        the RAGChatbot session of src/chat.ts: loadVectorStore,   *)
(*               retrieveRelevantDocuments, generateAnswer.                *)
(*   IngestSpec  createVectorStoreWithChromaDB of                          *)
(*               src/vector-store/vector-store.ts: batched, wave-limited   *)
(*               insertion into ChromaDB and the MemoryVectorStore         *)
(*               fallback with its JSON snapshot.                          *)
(*   StoreSpec   createVectorStore and createFallbackMemoryStore of the    *)
(*               same file, document by document: the concurrent           *)
(*               embedQuery requests and the snapshot that is written.     *)
(*   LoaderSpec  loadDocuments and processFile of                          *)
(*               src/processors/document-processor.ts, run twice over one  *)
(*               data directory.                                           *)
(*   HashSpec    generateChunkId of src/utils/crypto.ts on pairs of        *)
(*               argument triples.                                         *)
(*                                                                         *)
(* Texts are sequences of tokens (strings); " " is the whitespace token.   *)
(* Collaborators (ChromaDB, the embedding service, the LLM, the file       *)
(* system) are inputs: each call's outcome is chosen with \E and logged.   *)
(***************************************************************************)
EXTENDS Integers, Sequences, FiniteSets, TLC

VARIABLES
    \* ---- RAGChatbot (chat.ts) ----
    hits,           \* what the knowledge base ranks for a query, best first
    vectorStore,    \* this.vectorStore: "null", "chroma" or "memory"
    usingChroma,    \* this.usingChroma
    op,             \* the public operation that ran last, with its arguments
    calls,          \* collaborator calls made by that operation, in order
    result,         \* what that operation returned or threw
    \* ---- createVectorStoreWithChromaDB (vector-store.ts) ----
    pc,             \* position of the ingestion run
    useFallback,    \* the useFallback argument
    documents,      \* number of chunks loadDocuments returned
    documentBatches,\* the slices built for ChromaDB insertion
    wave,           \* loop variable i of the wave loop
    inflight,       \* addDocuments promises not yet settled
    submitted,      \* positions in documentBatches passed to addDocuments
    chromaContent,  \* slices ChromaDB holds
    failed,         \* positions in documentBatches whose addDocuments rejected
    failedReports,  \* batch numbers printed by the .catch handlers
    snapshot,       \* content of `${vectorStorePath}.json`
    ingestLog,      \* collaborator calls of the ingestion run, in order
    ingestResult,   \* what createVectorStoreWithChromaDB returned or threw
    \* ---- createVectorStore / createFallbackMemoryStore (vector-store.ts) ----
    spc,            \* position of the createVectorStore call
    storeDocs,      \* the documents handed to createFallbackMemoryStore
    embedPending,   \* positions whose embedQuery promise has not settled
    embedded,       \* position -> vector of the embedQuery promises resolved
    settleOrder,    \* positions in the order their promises resolved
    snapshotFile,   \* parsed content of `${vectorStorePath}.json`
    storeLog,       \* collaborator calls of the createVectorStore call
    storeResult,    \* what createVectorStore returned or threw
    memoryIndex,    \* the MemoryVectorStore createFallbackMemoryStore built
    reloaded,       \* what loadFallbackMemoryStore made of the snapshot file
    \* ---- loadDocuments (document-processor.ts) ----
    dataDir,        \* the files of config.dataPath, in readdir order
    lpc,            \* position of the loadDocuments call
    htmlFiles,      \* positions in dataDir of the files that passed the filter
    taskPending,    \* positions whose processFile promise has not settled
    taskResult,     \* position -> what its processFile promise settled with
    finishOrder,    \* positions in the order their promises settled
    loadResult,     \* what loadDocuments returned or threw
    firstRun,       \* what the previous loadDocuments call returned or threw
    \* ---- generateChunkId (crypto.ts) ----
    hashArgs,       \* two argument triples
    hashIds,        \* the ids generateChunkId returned for them
    \* ---- InteractiveChatbot (index.ts) ----
    conversationHistory, \* the field of that name
    transcript,     \* the exchanges answered since the history was last empty
    turns,          \* number of calls made on the InteractiveChatbot
    lastTurn        \* the last call: its name, whether it raised, the history before

chatVars == <<hits, vectorStore, usingChroma, op, calls, result>>
ingestVars == <<pc, useFallback, documents, documentBatches, wave, inflight,
                submitted, chromaContent, failed, failedReports, snapshot,
                ingestLog, ingestResult>>
storeVars == <<spc, storeDocs, embedPending, embedded, settleOrder,
               snapshotFile, storeLog, storeResult, memoryIndex, reloaded>>
loaderVars == <<dataDir, lpc, htmlFiles, taskPending, taskResult, finishOrder,
                loadResult, firstRun>>
hashVars == <<hashArgs, hashIds>>
historyVars == <<conversationHistory, transcript, turns, lastTurn>>
vars == <<chatVars, ingestVars, storeVars, loaderVars, hashVars, historyVars>>

----------------------------------------------------------------------------
(* Bounds of the model *)

MaxDocs == 4        \* longest retrieval result tried
MaxBatches == 11    \* most ChromaDB batches an ingestion run builds

Queries == {"q1", "q2"}

(* Program constants *)

TopK == 5
CONCURRENCY_LIMIT == 10
CHROMADB_BATCH_SIZE == 100

\* Chunk counts loadDocuments returns: none, and for a first, a last-of-wave,
\* a first-of-next-wave and the largest batch count, a full and a one-chunk
\* last batch.
BatchCounts == {1, 2, CONCURRENCY_LIMIT, CONCURRENCY_LIMIT + 1, MaxBatches}
ChunkCounts ==
    {0} \cup {b * CHROMADB_BATCH_SIZE : b \in BatchCounts}
        \cup {(b - 1) * CHROMADB_BATCH_SIZE + 1 : b \in BatchCounts}

----------------------------------------------------------------------------
(* Values *)

Min(a, b) == IF a < b THEN a ELSE b

Document(text, source) == [pageContent |-> text, metadata |-> [source |-> source]]

\* The chunks of the knowledge base: two of source A, two of B, one of C.
Corpus == {Document("t1", "A"), Document("t2", "A"), Document("t3", "B"),
           Document("t4", "C"), Document("t5", "B")}

RECURSIVE SeqsUpTo(_, _)
SeqsUpTo(S, n) ==
    IF n = 0 THEN {<<>>}
    ELSE LET shorter == SeqsUpTo(S, n - 1)
         IN  shorter \cup {Append(s, x) : s \in {t \in shorter : Len(t) = n - 1}, x \in S}

\* Rankings the knowledge base can hold for a query: distinct chunks.
Rankings ==
    {r \in SeqsUpTo(Corpus, MaxDocs) :
        \A i, j \in 1..Len(r) : r[i] = r[j] => i = j}

\* vectorStore.similaritySearch(query, k): the k best hits, or a rejection.
similaritySearch(ranking, k, reachable) ==
    IF reachable
    THEN [ok |-> TRUE, docs |-> SubSeq(ranking, 1, Min(k, Len(ranking)))]
    ELSE [ok |-> FALSE, docs |-> <<>>]

\* Contents an LLM reply can carry.
LLMContents == {<<"Ja">>, <<" ", "Ja", " ">>, <<>>}

\* Outcomes of llm.invoke: a reply, a rejection, or a reply whose content
\* cannot be read (response.content.toString() throws).
LLMOutcomes ==
    {[kind |-> "reply", content |-> c] : c \in LLMContents}
        \cup {[kind |-> "reject", content |-> <<>>],
              [kind |-> "badContent", content |-> <<>>]}

Call(svc, ok) == [svc |-> svc, ok |-> ok]

Return(v) == [kind |-> "return", error |-> "", value |-> v]
Throw(msg) == [kind |-> "throw", error |-> msg, value |-> <<>>]
NoResult == [kind |-> "none", error |-> "", value |-> <<>>]

----------------------------------------------------------------------------
(* chat.ts: RAGChatbot *)

NotLoadedError == "Vector store not loaded. Call loadVectorStore() first."
NoStoreError == "No vector store available. Please ensure ChromaDB is running or run 'pnpm ingest' to create a local fallback."
CollaboratorError == "collaborator error"

FallbackAnswer == <<"Ik kan deze vraag niet beantwoorden op basis van de beschikbare informatie. Probeer een andere vraag over zonnepanelen, energie of financiering.">>
ApologyAnswer == <<"Sorry, er is een fout opgetreden bij het verwerken van je vraag. Probeer het later nog eens.">>

\* String.prototype.trim on a token sequence.
RECURSIVE TrimStart(_)
TrimStart(s) == IF s # <<>> /\ Head(s) = " " THEN TrimStart(Tail(s)) ELSE s

RECURSIVE TrimEnd(_)
TrimEnd(s) ==
    IF s # <<>> /\ s[Len(s)] = " " THEN TrimEnd(SubSeq(s, 1, Len(s) - 1)) ELSE s

Trim(s) == TrimEnd(TrimStart(s))

\* [...new Set(xs)]: insertion order, each value once.
RECURSIVE UniqueInOrder(_, _)
UniqueInOrder(xs, seen) ==
    IF xs = <<>> THEN <<>>
    ELSE IF Head(xs) \in seen THEN UniqueInOrder(Tail(xs), seen)
    ELSE <<Head(xs)>> \o UniqueInOrder(Tail(xs), seen \cup {Head(xs)})

\* Variant: the source of every chunk, duplicates kept.
SourcesOf_NoDedup(relevantDocs) ==
    [i \in 1..Len(relevantDocs) |-> relevantDocs[i].metadata.source]

SourcesOf(relevantDocs) ==
    UniqueInOrder([i \in 1..Len(relevantDocs) |-> relevantDocs[i].metadata.source], {})

\* Variant: the context entries are labelled with the array index.
ContextOf_ZeroBased(relevantDocs) ==
    [i \in 1..Len(relevantDocs) |->
        [label |-> i - 1, text |-> relevantDocs[i].pageContent]]

\* relevantDocs.map((doc, index) => `[${index + 1}] ${doc.pageContent}`)
ContextOf(relevantDocs) ==
    [i \in 1..Len(relevantDocs) |->
        [label |-> (i - 1) + 1, text |-> relevantDocs[i].pageContent]]

createPrompt(context, question) == [context |-> context, question |-> question]

\* Variant: an unloaded store yields an empty result instead of an error.
retrieveRelevantDocuments_SoftFallback(vs, query, topK, search) ==
    IF vs = "null"
    THEN [calls |-> <<>>, out |-> Return(<<>>)]
    ELSE [calls |-> <<[svc |-> "similaritySearch", ok |-> search.ok,
                       store |-> vs, query |-> query, k |-> topK,
                       docs |-> search.docs]>>,
          out |-> IF search.ok THEN Return(search.docs)
                  ELSE Throw(CollaboratorError)]

\* retrieveRelevantDocuments(query, topK) on a chatbot whose vectorStore is vs.
retrieveRelevantDocuments(vs, query, topK, search) ==
    IF vs = "null"
    THEN [calls |-> <<>>, out |-> Throw(NotLoadedError)]
    ELSE [calls |-> <<[svc |-> "similaritySearch", ok |-> search.ok,
                       store |-> vs, query |-> query, k |-> topK,
                       docs |-> search.docs]>>,
          out |-> IF search.ok THEN Return(search.docs)
                  ELSE Throw(CollaboratorError)]

\* Variant: only a rejected invoke is caught; reading the reply is outside
\* the try block.
AnswerFromLLM_NarrowCatch(query, relevantDocs, llm) ==
    LET context == ContextOf(relevantDocs)
        sources == SourcesOf(relevantDocs)
        prompt  == createPrompt(context, query)
        invoke  == [svc |-> "llm.invoke", ok |-> llm.kind # "reject",
                    prompt |-> prompt]
    IN  IF llm.kind = "reply"
        THEN [calls |-> <<invoke>>,
              out |-> Return([answer |-> Trim(llm.content),
                              sources |-> sources,
                              foundRelevantInfo |-> TRUE])]
        ELSE IF llm.kind = "badContent"
        THEN [calls |-> <<invoke>>, out |-> Throw(CollaboratorError)]
        ELSE [calls |-> <<invoke>>,
              out |-> Return([answer |-> ApologyAnswer,
                              sources |-> <<>>,
                              foundRelevantInfo |-> FALSE])]

\* Variant: the catch block returns the collected sources.
AnswerFromLLM_KeepsSources(query, relevantDocs, llm) ==
    LET context == ContextOf(relevantDocs)
        sources == SourcesOf(relevantDocs)
        prompt  == createPrompt(context, query)
        invoke  == [svc |-> "llm.invoke", ok |-> llm.kind # "reject",
                    prompt |-> prompt]
    IN  IF llm.kind = "reply"
        THEN [calls |-> <<invoke>>,
              out |-> Return([answer |-> Trim(llm.content),
                              sources |-> sources,
                              foundRelevantInfo |-> TRUE])]
        ELSE [calls |-> <<invoke>>,
              out |-> Return([answer |-> ApologyAnswer,
                              sources |-> sources,
                              foundRelevantInfo |-> FALSE])]

\* The try/catch around llm.invoke, with relevantDocs non-empty.
AnswerFromLLM(query, relevantDocs, llm) ==
    LET context == ContextOf(relevantDocs)
        sources == SourcesOf(relevantDocs)
        prompt  == createPrompt(context, query)
        invoke  == [svc |-> "llm.invoke", ok |-> llm.kind # "reject",
                    prompt |-> prompt]
    IN  IF llm.kind = "reply"
        THEN [calls |-> <<invoke>>,
              out |-> Return([answer |-> Trim(llm.content),
                              sources |-> sources,
                              foundRelevantInfo |-> TRUE])]
        ELSE [calls |-> <<invoke>>,
              out |-> Return([answer |-> ApologyAnswer,
                              sources |-> <<>>,
                              foundRelevantInfo |-> FALSE])]

\* Variant: no early return on an empty retrieval result.
generateAnswer_NoEmptyCheck(vs, query, search, llm) ==
    LET retrieved == retrieveRelevantDocuments(vs, query, TopK, search)
    IN  IF retrieved.out.kind = "throw" THEN retrieved
        ELSE LET gen == AnswerFromLLM(query, retrieved.out.value, llm)
             IN  [calls |-> retrieved.calls \o gen.calls, out |-> gen.out]

\* generateAnswer(query) on a chatbot whose vectorStore is vs.
generateAnswer(vs, query, search, llm) ==
    LET retrieved == retrieveRelevantDocuments(vs, query, TopK, search)
    IN  IF retrieved.out.kind = "throw" THEN retrieved
        ELSE LET relevantDocs == retrieved.out.value
             IN  IF Len(relevantDocs) = 0
                 THEN [calls |-> retrieved.calls,
                       out |-> Return([answer |-> FallbackAnswer,
                                       sources |-> <<>>,
                                       foundRelevantInfo |-> FALSE])]
                 ELSE LET gen == AnswerFromLLM(query, relevantDocs, llm)
                      IN  [calls |-> retrieved.calls \o gen.calls, out |-> gen.out]

\* Variant: the store is returned as soon as it is constructed, unprobed.
tryConnectToChromaDB_NoProbe(probe) ==
    IF probe = "ctorThrows"
    THEN [calls |-> <<Call("new Chroma", FALSE)>>, store |-> "null"]
    ELSE [calls |-> <<Call("new Chroma", TRUE)>>, store |-> "chroma"]

\* tryConnectToChromaDB(): new Chroma(...), then the probe query.
tryConnectToChromaDB(probe) ==
    IF probe = "ctorThrows"
    THEN [calls |-> <<Call("new Chroma", FALSE)>>, store |-> "null"]
    ELSE IF probe = "searchThrows"
    THEN [calls |-> <<Call("new Chroma", TRUE),
                      Call("chroma.similaritySearch('test', 1)", FALSE)>>,
          store |-> "null"]
    ELSE [calls |-> <<Call("new Chroma", TRUE),
                      Call("chroma.similaritySearch('test', 1)", TRUE)>>,
          store |-> "chroma"]

\* loadFallbackMemoryStore(): read and parse the snapshot, rebuild the store.
loadFallbackMemoryStore(snap, embedOk) ==
    IF snap = "missing"
    THEN [calls |-> <<Call("readFile", FALSE)>>, store |-> "null"]
    ELSE IF snap = "corrupt"
    THEN [calls |-> <<Call("readFile", TRUE), Call("JSON.parse", FALSE)>>,
          store |-> "null"]
    ELSE [calls |-> <<Call("readFile", TRUE), Call("JSON.parse", TRUE),
                      Call("MemoryVectorStore.fromDocuments", embedOk)>>,
          store |-> IF embedOk THEN "memory" ELSE "null"]

\* loadVectorStore(): the fields it leaves and what it returns.
loadVectorStore(vs, chroma, probe, snap, embedOk) ==
    LET chromaStore == tryConnectToChromaDB(probe)
    IN  IF chromaStore.store # "null"
        THEN [vectorStore |-> chromaStore.store, usingChroma |-> TRUE,
              calls |-> chromaStore.calls, out |-> Return(<<>>)]
        ELSE LET memoryStore == loadFallbackMemoryStore(snap, embedOk)
             IN  IF memoryStore.store # "null"
                 THEN [vectorStore |-> memoryStore.store, usingChroma |-> FALSE,
                       calls |-> chromaStore.calls \o memoryStore.calls,
                       out |-> Return(<<>>)]
                 ELSE [vectorStore |-> vs, usingChroma |-> chroma,
                       calls |-> chromaStore.calls \o memoryStore.calls,
                       out |-> Throw(NoStoreError)]

Probes == {"ok", "ctorThrows", "searchThrows"}
Snapshots == {"missing", "corrupt", "valid"}

LoadVectorStore ==
    \E probe \in Probes, snap \in Snapshots, embedOk \in BOOLEAN :
        LET r == loadVectorStore(vectorStore, usingChroma, probe, snap, embedOk)
        IN  /\ vectorStore' = r.vectorStore
            /\ usingChroma' = r.usingChroma
            /\ op' = [name |-> "loadVectorStore",
                      args |-> [probe |-> probe, snap |-> snap,
                                embedOk |-> embedOk]]
            /\ calls' = r.calls
            /\ result' = r.out
            /\ UNCHANGED <<hits, ingestVars, storeVars,
                   loaderVars, hashVars, historyVars>>

RetrieveRelevantDocuments ==
    \E query \in Queries, k \in 1..TopK, reachable \in BOOLEAN :
        LET r == retrieveRelevantDocuments(vectorStore, query, k,
                                           similaritySearch(hits, k, reachable))
        IN  /\ op' = [name |-> "retrieveRelevantDocuments",
                      args |-> [query |-> query, topK |-> k]]
            /\ calls' = r.calls
            /\ result' = r.out
            /\ UNCHANGED <<hits, vectorStore, usingChroma, ingestVars, storeVars,
                   loaderVars, hashVars, historyVars>>

\* Variant: isConnected does not look at the store.
getVectorStoreInfo_AlwaysConnected(vs, chroma) ==
    [type |-> IF chroma THEN "ChromaDB" ELSE "FAISS (MemoryVectorStore)",
     isConnected |-> TRUE]

\* getVectorStoreInfo() on a chatbot with fields vs and chroma.
getVectorStoreInfo(vs, chroma) ==
    [type |-> IF chroma THEN "ChromaDB" ELSE "FAISS (MemoryVectorStore)",
     isConnected |-> vs # "null"]

GetVectorStoreInfo ==
    /\ op' = [name |-> "getVectorStoreInfo", args |-> <<>>]
    /\ calls' = <<>>
    /\ result' = Return(getVectorStoreInfo(vectorStore, usingChroma))
    /\ UNCHANGED <<hits, vectorStore, usingChroma, ingestVars, storeVars,
                   loaderVars, hashVars, historyVars>>

\* Variant: a failed query drops the store handle.
GenerateAnswer_DropsStore ==
    \E query \in Queries, reachable \in BOOLEAN, llm \in LLMOutcomes :
        LET r == generateAnswer(vectorStore, query,
                                similaritySearch(hits, TopK, reachable), llm)
        IN  /\ op' = [name |-> "generateAnswer",
                      args |-> [query |-> query, llm |-> llm.kind]]
            /\ calls' = r.calls
            /\ result' = r.out
            /\ vectorStore' = IF r.out.kind = "throw" THEN "null" ELSE vectorStore
            /\ UNCHANGED <<hits, usingChroma, ingestVars, storeVars,
                   loaderVars, hashVars, historyVars>>

\* Variant: a failed query against ChromaDB switches to the local store.
GenerateAnswer_Reselects ==
    \E query \in Queries, reachable \in BOOLEAN, llm \in LLMOutcomes :
        LET r == generateAnswer(vectorStore, query,
                                similaritySearch(hits, TopK, reachable), llm)
            switch == vectorStore = "chroma" /\ r.out.kind = "throw"
        IN  /\ op' = [name |-> "generateAnswer",
                      args |-> [query |-> query, llm |-> llm.kind]]
            /\ calls' = r.calls
            /\ result' = r.out
            /\ vectorStore' = IF switch THEN "memory" ELSE vectorStore
            /\ usingChroma' = IF switch THEN FALSE ELSE usingChroma
            /\ UNCHANGED <<hits, ingestVars, storeVars,
                   loaderVars, hashVars, historyVars>>

GenerateAnswer ==
    \E query \in Queries, reachable \in BOOLEAN, llm \in LLMOutcomes :
        LET r == generateAnswer(vectorStore, query,
                                similaritySearch(hits, TopK, reachable), llm)
        IN  /\ op' = [name |-> "generateAnswer",
                      args |-> [query |-> query, llm |-> llm.kind]]
            /\ calls' = r.calls
            /\ result' = r.out
            /\ UNCHANGED <<hits, vectorStore, usingChroma, ingestVars, storeVars,
                   loaderVars, hashVars, historyVars>>

----------------------------------------------------------------------------
(* vector-store.ts: createVectorStoreWithChromaDB *)

ApiKeyError == "OPENAI_API_KEY is required. Please set it in your .env file."
NoDocumentsError == "No documents were successfully processed"

\* Variant: the end of a slice is not cut at the end of the array.
Slice_Unclamped(a, b, n) == [from |-> a, to |-> b]

\* documents.slice(a, b) of an array of n chunks, as the half-open range of
\* chunk indices it holds.
Slice(a, b, n) == [from |-> Min(a, n), to |-> Min(b, n)]

\* Chunk c is one of the chunks of the slice.
Holds(slice, c) == slice.from <= c /\ c < slice.to

\* Math.ceil(documents.length / CHROMADB_BATCH_SIZE)
totalBatches(n) == (n + CHROMADB_BATCH_SIZE - 1) \div CHROMADB_BATCH_SIZE

\* for (let i = 0; i < documents.length; i += CHROMADB_BATCH_SIZE) push(slice)
RECURSIVE BuildBatches(_, _)
BuildBatches(i, n) ==
    IF i < n
    THEN <<Slice(i, i + CHROMADB_BATCH_SIZE, n)>>
             \o BuildBatches(i + CHROMADB_BATCH_SIZE, n)
    ELSE <<>>

\* The addDocuments tasks of the wave that starts at loop value i:
\* concurrentBatches.map((batch, index) => ...), startBatchNum = i + 1.
WaveTasks(batches, i) ==
    LET last == Min(i + CONCURRENCY_LIMIT, Len(batches))
        startBatchNum == i + 1
    IN  {[batch |-> batches[i + index + 1],
          pos |-> i + index,
          batchNumber |-> startBatchNum + index] : index \in 0..(last - i - 1)}

\* Variant: the useFallback argument is not consulted, ChromaDB is tried first.
CreateVectorStoreWithChromaDB_IgnoresFlag ==
    /\ pc = "start"
    /\ \E fb \in BOOLEAN, apiKey \in BOOLEAN, loaded \in ChunkCounts \cup {-1},
          ctorOk \in BOOLEAN :
        /\ useFallback' = fb
        /\ IF ~apiKey
           THEN /\ ingestResult' = Throw(ApiKeyError)
                /\ pc' = "done"
                /\ ingestLog' = <<>>
                /\ UNCHANGED <<documents, documentBatches>>
           ELSE IF loaded = -1
           THEN /\ ingestResult' = Throw(CollaboratorError)
                /\ pc' = "done"
                /\ ingestLog' = <<Call("loadDocuments", FALSE)>>
                /\ UNCHANGED <<documents, documentBatches>>
           ELSE IF loaded = 0
           THEN /\ ingestResult' = Throw(NoDocumentsError)
                /\ pc' = "done"
                /\ ingestLog' = <<Call("loadDocuments", TRUE)>>
                /\ documents' = loaded
                /\ UNCHANGED documentBatches
           ELSE IF ~ctorOk
           THEN /\ pc' = "fallback"
                /\ ingestLog' = <<Call("loadDocuments", TRUE),
                                  Call("new Chroma", FALSE)>>
                /\ documents' = loaded
                /\ UNCHANGED <<ingestResult, documentBatches>>
           ELSE /\ pc' = "wave"
                /\ ingestLog' = <<Call("loadDocuments", TRUE),
                                  Call("new Chroma", TRUE)>>
                /\ documents' = loaded
                /\ documentBatches' = BuildBatches(0, loaded)
                /\ UNCHANGED ingestResult
    /\ UNCHANGED <<wave, inflight, submitted, chromaContent, failed,
                   failedReports, snapshot, chatVars, storeVars,
                   loaderVars, hashVars, historyVars>>

\* Entry of createVectorStoreWithChromaDB up to the first wave: the API key
\* check, loadDocuments, the zero-chunk check, the useFallback branch,
\* createChromaVectorStore and the batch list.
CreateVectorStoreWithChromaDB ==
    /\ pc = "start"
    /\ \E fb \in BOOLEAN, apiKey \in BOOLEAN, loaded \in ChunkCounts \cup {-1},
          ctorOk \in BOOLEAN :
        /\ useFallback' = fb
        /\ IF ~apiKey
           THEN /\ ingestResult' = Throw(ApiKeyError)
                /\ pc' = "done"
                /\ ingestLog' = <<>>
                /\ UNCHANGED <<documents, documentBatches>>
           ELSE IF loaded = -1
           THEN /\ ingestResult' = Throw(CollaboratorError)
                /\ pc' = "done"
                /\ ingestLog' = <<Call("loadDocuments", FALSE)>>
                /\ UNCHANGED <<documents, documentBatches>>
           ELSE IF loaded = 0
           THEN /\ ingestResult' = Throw(NoDocumentsError)
                /\ pc' = "done"
                /\ ingestLog' = <<Call("loadDocuments", TRUE)>>
                /\ documents' = loaded
                /\ UNCHANGED documentBatches
           ELSE IF fb
           THEN /\ pc' = "fallback"
                /\ ingestLog' = <<Call("loadDocuments", TRUE)>>
                /\ documents' = loaded
                /\ UNCHANGED <<ingestResult, documentBatches>>
           ELSE IF ~ctorOk
           THEN /\ pc' = "fallback"
                /\ ingestLog' = <<Call("loadDocuments", TRUE),
                                  Call("new Chroma", FALSE)>>
                /\ documents' = loaded
                /\ UNCHANGED <<ingestResult, documentBatches>>
           ELSE /\ pc' = "wave"
                /\ ingestLog' = <<Call("loadDocuments", TRUE),
                                  Call("new Chroma", TRUE)>>
                /\ documents' = loaded
                /\ documentBatches' = BuildBatches(0, loaded)
                /\ UNCHANGED ingestResult
    /\ UNCHANGED <<wave, inflight, submitted, chromaContent, failed,
                   failedReports, snapshot, chatVars, storeVars,
                   loaderVars, hashVars, historyVars>>

\* One pass of the wave loop up to `await Promise.all(promises)`: every
\* batch of the wave is handed to chromaStore.addDocuments.
SubmitWave ==
    /\ pc = "wave"
    /\ wave < totalBatches(documents)
    /\ inflight' = WaveTasks(documentBatches, wave)
    /\ submitted' = submitted \cup {t.pos : t \in WaveTasks(documentBatches, wave)}
    /\ pc' = "await"
    /\ UNCHANGED <<useFallback, documents, documentBatches, wave, chromaContent,
                   failed, failedReports, snapshot, ingestLog, ingestResult,
                   chatVars, storeVars,
                   loaderVars, hashVars, historyVars>>

\* chromaStore.addDocuments(batch) resolves.
BatchInserted ==
    /\ pc = "await"
    /\ \E t \in inflight :
        /\ inflight' = inflight \ {t}
        /\ chromaContent' = chromaContent \cup {t.batch}
    /\ UNCHANGED <<pc, useFallback, documents, documentBatches, wave, submitted,
                   failed, failedReports, snapshot, ingestLog, ingestResult,
                   chatVars, storeVars,
                   loaderVars, hashVars, historyVars>>

\* Variant: no .catch on the batch promise, so the rejection leaves
\* Promise.all and the function.
BatchFailed_Aborts ==
    /\ pc = "await"
    /\ \E t \in inflight :
        /\ inflight' = inflight \ {t}
        /\ failed' = failed \cup {t.pos}
    /\ pc' = "done"
    /\ ingestResult' = Throw(CollaboratorError)
    /\ UNCHANGED <<useFallback, documents, documentBatches, wave, submitted,
                   chromaContent, failedReports, snapshot, ingestLog, chatVars, storeVars,
                   loaderVars, hashVars, historyVars>>

\* chromaStore.addDocuments(batch) rejects: the .catch handler reports it.
BatchFailed ==
    /\ pc = "await"
    /\ \E t \in inflight :
        /\ inflight' = inflight \ {t}
        /\ failed' = failed \cup {t.pos}
        /\ failedReports' = failedReports \cup {t.batchNumber}
    /\ UNCHANGED <<pc, useFallback, documents, documentBatches, wave, submitted,
                   chromaContent, snapshot, ingestLog, ingestResult, chatVars, storeVars,
                   loaderVars, hashVars, historyVars>>

\* Variant: the loop steps to the next wave without awaiting the promises.
WaveSettled_NoWait ==
    /\ pc = "await"
    /\ wave' = wave + CONCURRENCY_LIMIT
    /\ pc' = "wave"
    /\ UNCHANGED <<useFallback, documents, documentBatches, inflight, submitted,
                   chromaContent, failed, failedReports, snapshot, ingestLog,
                   ingestResult, chatVars, storeVars, loaderVars, hashVars, historyVars>>

\* Promise.all(promises) resolves: the loop steps to the next wave.
WaveSettled ==
    /\ pc = "await"
    /\ inflight = {}
    /\ wave' = wave + CONCURRENCY_LIMIT
    /\ pc' = "wave"
    /\ UNCHANGED <<useFallback, documents, documentBatches, inflight, submitted,
                   chromaContent, failed, failedReports, snapshot, ingestLog,
                   ingestResult, chatVars, storeVars,
                   loaderVars, hashVars, historyVars>>

\* The wave loop is over: `return chromaStore`.
ReturnChromaStore ==
    /\ pc = "wave"
    /\ ~(wave < totalBatches(documents))
    /\ ingestResult' = Return("chroma")
    /\ pc' = "done"
    /\ UNCHANGED <<useFallback, documents, documentBatches, wave, inflight,
                   submitted, chromaContent, failed, failedReports, snapshot,
                   ingestLog, chatVars, storeVars,
                   loaderVars, hashVars, historyVars>>

\* createFallbackMemoryStore: ensureStorageDirectory (which swallows its own
\* error) and MemoryVectorStore.fromDocuments.
BuildMemoryStore ==
    /\ pc = "fallback"
    /\ \E mkdirOk \in BOOLEAN, embedOk \in BOOLEAN :
        /\ ingestLog' = ingestLog \o <<Call("mkdir", mkdirOk),
                            Call("MemoryVectorStore.fromDocuments", embedOk)>>
        /\ IF embedOk
           THEN pc' = "embed" /\ UNCHANGED ingestResult
           ELSE pc' = "done" /\ ingestResult' = Throw(CollaboratorError)
    /\ UNCHANGED <<useFallback, documents, documentBatches, wave, inflight,
                   submitted, chromaContent, failed, failedReports, snapshot,
                   chatVars, storeVars,
                   loaderVars, hashVars, historyVars>>

\* Variant: a rejected embedQuery is ignored and the snapshot is written.
EmbedSnapshot_IgnoresRejection ==
    /\ pc = "embed"
    /\ \E embedOk \in BOOLEAN :
        /\ ingestLog' = Append(ingestLog, Call("embedQuery", embedOk))
        /\ pc' = "write"
        /\ UNCHANGED ingestResult
    /\ UNCHANGED <<useFallback, documents, documentBatches, wave, inflight,
                   submitted, chromaContent, failed, failedReports, snapshot,
                   chatVars, storeVars, loaderVars, hashVars, historyVars>>

\* createFallbackMemoryStore: Promise.all of embedQuery over the documents.
EmbedSnapshot ==
    /\ pc = "embed"
    /\ \E embedOk \in BOOLEAN :
        /\ ingestLog' = Append(ingestLog, Call("embedQuery", embedOk))
        /\ IF embedOk
           THEN pc' = "write" /\ UNCHANGED ingestResult
           ELSE pc' = "done" /\ ingestResult' = Throw(CollaboratorError)
    /\ UNCHANGED <<useFallback, documents, documentBatches, wave, inflight,
                   submitted, chromaContent, failed, failedReports, snapshot,
                   chatVars, storeVars,
                   loaderVars, hashVars, historyVars>>

\* createFallbackMemoryStore: writeFile of the snapshot, `return vectorStore`.
WriteSnapshot ==
    /\ pc = "write"
    /\ \E writeOk \in BOOLEAN :
        /\ ingestLog' = Append(ingestLog, Call("writeFile", writeOk))
        /\ IF writeOk
           THEN /\ snapshot' = [run |-> "this",
                                 documents |-> Slice(0, documents, documents)]
                /\ ingestResult' = Return("memory")
           ELSE /\ ingestResult' = Throw(CollaboratorError)
                /\ UNCHANGED snapshot
        /\ pc' = "done"
    /\ UNCHANGED <<useFallback, documents, documentBatches, wave, inflight,
                   submitted, chromaContent, failed, failedReports, chatVars, storeVars,
                   loaderVars, hashVars, historyVars>>

\* The snapshot file before the run: absent, or left by an earlier run.
NoSnapshot == [run |-> "none", documents |-> Slice(0, 0, 0)]
OldSnapshot == [run |-> "earlier", documents |-> Slice(0, 1, 1)]

IngestStart ==
    /\ pc = "start"
    /\ useFallback = FALSE
    /\ documents = 0
    /\ documentBatches = <<>>
    /\ wave = 0
    /\ inflight = {}
    /\ submitted = {}
    /\ chromaContent = {}
    /\ failed = {}
    /\ failedReports = {}
    /\ snapshot \in {NoSnapshot, OldSnapshot}
    /\ ingestLog = <<>>
    /\ ingestResult = NoResult

IngestIdle ==
    /\ pc = "idle"
    /\ useFallback = FALSE
    /\ documents = 0
    /\ documentBatches = <<>>
    /\ wave = 0
    /\ inflight = {}
    /\ submitted = {}
    /\ chromaContent = {}
    /\ failed = {}
    /\ failedReports = {}
    /\ snapshot = NoSnapshot
    /\ ingestLog = <<>>
    /\ ingestResult = NoResult

----------------------------------------------------------------------------
(* vector-store.ts: createVectorStore, createFallbackMemoryStore *)

MaxSnapshotDocs == 3    \* most documents loadDocuments hands to createVectorStore

DocTexts == {<<"zon">>, <<"zon", "paneel">>, <<"laad", "paal">>}

\* What loadDocuments() settles with: a list of documents, or a rejection.
LoadOutcomes ==
    {[ok |-> TRUE, docs |-> l] :
        l \in SeqsUpTo({Document(t, "A") : t \in DocTexts}, MaxSnapshotDocs)}
        \cup {[ok |-> FALSE, docs |-> <<>>]}

\* embeddings.embedQuery(text): the vector the embedding service returns.
EmbeddingOf(text) == [model |-> "text-embedding-3-small", vectorOf |-> text]

\* The embedding service as a later process finds it: answering as it did at
\* ingestion, answering with other vectors, or not answering.
EmbeddingServiceStates == {"same", "changed", "down"}

\* The vector of a text once the service has changed: only the last token of
\* the text still counts.
ChangedEmbeddingOf(text) ==
    [model |-> "text-embedding-3-small", vectorOf |-> <<text[Len(text)]>>]

\* MemoryVectorStore.fromDocuments(documents, embeddings): one entry per
\* document, in order, each with the vector the service returns for its text.
fromDocuments(docs, service) ==
    [i \in 1..Len(docs) |->
        [content |-> docs[i],
         embedding |-> IF service = "same"
                       THEN EmbeddingOf(docs[i].pageContent)
                       ELSE ChangedEmbeddingOf(docs[i].pageContent)]]

\* Similarity of a query vector and a stored vector: the tokens they share.
Similarity(queryVector, vector) ==
    Cardinality({queryVector.vectorOf[i] : i \in DOMAIN queryVector.vectorOf}
                \cap {vector.vectorOf[i] : i \in DOMAIN vector.vectorOf})

\* The scan of a MemoryVectorStore: its documents by descending similarity
\* to the query vector, equal scores in insertion order.
RankingOf(index, queryVector) ==
    LET score == [i \in 1..Len(index) |->
                     Similarity(queryVector, index[i].embedding)]
        order == SortSeq([i \in 1..Len(index) |-> i],
                         LAMBDA a, b : \/ score[a] > score[b]
                                       \/ score[a] = score[b] /\ a < b)
    IN  [i \in 1..Len(index) |-> index[order[i]].content]

\* loadFallbackMemoryStore has not run.
NotLoaded == [state |-> "none", index |-> <<>>]

\* Variant: the array is filled in the order the promises resolved.
PromiseAll_CompletionOrder(values, order) ==
    [i \in 1..Len(order) |-> values[order[i]]]

\* await Promise.all(promises): the fulfilled values in the order of the
\* promises, whatever the order they resolved in.
PromiseAll(values, order) ==
    [i \in 1..Len(order) |-> values[i]]

\* createVectorStore(): the API key check and loadDocuments().
CreateVectorStore ==
    /\ spc = "start"
    /\ \E apiKey \in BOOLEAN, loaded \in LoadOutcomes :
        IF ~apiKey
        THEN /\ storeResult' = Throw(ApiKeyError)
             /\ spc' = "done"
             /\ UNCHANGED <<storeLog, storeDocs>>
        ELSE IF ~loaded.ok
        THEN /\ storeResult' = Throw(CollaboratorError)
             /\ spc' = "done"
             /\ storeLog' = <<Call("loadDocuments", FALSE)>>
             /\ UNCHANGED storeDocs
        ELSE /\ storeDocs' = loaded.docs
             /\ spc' = "fallback"
             /\ storeLog' = <<Call("loadDocuments", TRUE)>>
             /\ UNCHANGED storeResult
    /\ UNCHANGED <<embedPending, embedded, settleOrder, snapshotFile,
                   memoryIndex, reloaded,
                   chatVars, ingestVars, loaderVars, hashVars, historyVars>>

\* createFallbackMemoryStore up to `await Promise.all(...)`:
\* ensureStorageDirectory (which swallows its own error),
\* MemoryVectorStore.fromDocuments, and one embedQuery per document.
CreateFallbackMemoryStore ==
    /\ spc = "fallback"
    /\ \E mkdirOk \in BOOLEAN, embedOk \in BOOLEAN :
        /\ storeLog' = storeLog \o <<Call("mkdir", mkdirOk),
                            Call("MemoryVectorStore.fromDocuments", embedOk)>>
        /\ IF embedOk
           THEN /\ spc' = "embedding"
                /\ memoryIndex' = fromDocuments(storeDocs, "same")
                /\ embedPending' = 1..Len(storeDocs)
                /\ UNCHANGED storeResult
           ELSE /\ spc' = "done"
                /\ storeResult' = Throw(CollaboratorError)
                /\ UNCHANGED <<embedPending, memoryIndex>>
    /\ UNCHANGED <<storeDocs, embedded, settleOrder, snapshotFile, reloaded,
                   chatVars, ingestVars, loaderVars, hashVars, historyVars>>

\* embeddings.embedQuery(doc.pageContent) of one document resolves.
EmbedQueryResolved ==
    /\ spc = "embedding"
    /\ \E i \in embedPending :
        /\ embedPending' = embedPending \ {i}
        /\ embedded' = [j \in DOMAIN embedded \cup {i} |->
                           IF j = i THEN EmbeddingOf(storeDocs[i].pageContent)
                           ELSE embedded[j]]
        /\ settleOrder' = Append(settleOrder, i)
    /\ storeLog' = Append(storeLog, Call("embedQuery", TRUE))
    /\ UNCHANGED <<spc, storeDocs, snapshotFile, storeResult,
                   memoryIndex, reloaded,
                   chatVars, ingestVars, loaderVars, hashVars, historyVars>>

\* embeddings.embedQuery(doc.pageContent) of one document rejects:
\* Promise.all rejects and createFallbackMemoryStore throws.
EmbedQueryRejected ==
    /\ spc = "embedding"
    /\ embedPending # {}
    /\ storeLog' = Append(storeLog, Call("embedQuery", FALSE))
    /\ storeResult' = Throw(CollaboratorError)
    /\ spc' = "done"
    /\ UNCHANGED <<storeDocs, embedPending, embedded, settleOrder,
                   snapshotFile, memoryIndex, reloaded,
                   chatVars, ingestVars, loaderVars, hashVars, historyVars>>

\* createFallbackMemoryStore after Promise.all: vectorData, writeFile of
\* JSON.stringify(vectorData), `return vectorStore`.
WriteSnapshotFile ==
    /\ spc = "embedding"
    /\ embedPending = {}
    /\ \E writeOk \in BOOLEAN :
        /\ storeLog' = Append(storeLog, Call("writeFile", writeOk))
        /\ IF writeOk
           THEN /\ snapshotFile' =
                       [exists |-> TRUE,
                        documents |-> [i \in 1..Len(storeDocs) |->
                            [pageContent |-> storeDocs[i].pageContent,
                             metadata |-> storeDocs[i].metadata]],
                        embeddings |-> PromiseAll(embedded, settleOrder)]
                /\ storeResult' = Return("memory")
           ELSE /\ storeResult' = Throw(CollaboratorError)
                /\ UNCHANGED snapshotFile
    /\ spc' = "done"
    /\ UNCHANGED <<storeDocs, embedPending, embedded, settleOrder,
                   memoryIndex, reloaded,
                   chatVars, ingestVars, loaderVars, hashVars, historyVars>>

\* RAGChatbot.loadFallbackMemoryStore on the file the ingestion left:
\* readFile and JSON.parse, one Document per entry of vectorData.documents,
\* then MemoryVectorStore.fromDocuments(documents, this.embeddings), which
\* embeds the texts anew (no request when there are none);
\* vectorData.embeddings is not read.  Any rejection is caught and the
\* method returns null.
LoadFallbackMemoryStore ==
    /\ spc = "done"
    /\ reloaded = NotLoaded
    /\ \E service \in EmbeddingServiceStates :
        reloaded' =
            IF \/ ~snapshotFile.exists
               \/ service = "down" /\ snapshotFile.documents # <<>>
            THEN [state |-> "null", index |-> <<>>]
            ELSE [state |-> "loaded",
                  index |-> fromDocuments(
                      [i \in 1..Len(snapshotFile.documents) |->
                          [pageContent |-> snapshotFile.documents[i].pageContent,
                           metadata |-> snapshotFile.documents[i].metadata]],
                      service)]
    /\ UNCHANGED <<spc, storeDocs, embedPending, embedded, settleOrder,
                   snapshotFile, storeLog, storeResult, memoryIndex,
                   chatVars, ingestVars, loaderVars, hashVars, historyVars>>

AbsentFile == [exists |-> FALSE, documents |-> <<>>, embeddings |-> <<>>]

StoreStart ==
    /\ spc = "start"
    /\ storeDocs = <<>>
    /\ embedPending = {}
    /\ embedded = <<>>
    /\ settleOrder = <<>>
    /\ snapshotFile = AbsentFile
    /\ storeLog = <<>>
    /\ storeResult = NoResult
    /\ memoryIndex = <<>>
    /\ reloaded = NotLoaded

StoreIdle ==
    /\ spc = "idle"
    /\ storeDocs = <<>>
    /\ embedPending = {}
    /\ embedded = <<>>
    /\ settleOrder = <<>>
    /\ snapshotFile = AbsentFile
    /\ storeLog = <<>>
    /\ storeResult = NoResult
    /\ memoryIndex = <<>>
    /\ reloaded = NotLoaded

LoaderIdle ==
    /\ dataDir = <<>>
    /\ lpc = "idle"
    /\ htmlFiles = <<>>
    /\ taskPending = {}
    /\ taskResult = <<>>
    /\ finishOrder = <<>>
    /\ loadResult = NoResult
    /\ firstRun = NoResult

HashIdle ==
    /\ hashArgs = <<>>
    /\ hashIds = <<>>

----------------------------------------------------------------------------
(* utils/crypto.ts: generateChunkId *)

MaxChunkIndex == 11     \* largest chunkIndex tried

\* The tokens strings are made of, each at the position that is its byte.
Alphabet == <<"-", "0", "1", "2", "3", "4", "5", "6", "7", "8", "9",
              "a", "b", "c", "notes", ".html", ".txt",
              "zon", "paneel", "laad", "paal", " ">>

TokenCode(t) == CHOOSE i \in 1..Len(Alphabet) : Alphabet[i] = t

HexDigits == <<"0", "1", "2", "3", "4", "5", "6", "7", "8", "9",
               "a", "b", "c", "d", "e", "f">>

\* `${chunkIndex}`: the decimal digits of a non-negative integer.
RECURSIVE ToDecimal(_)
ToDecimal(n) ==
    IF n < 10 THEN <<HexDigits[n + 1]>>
    ELSE ToDecimal(n \div 10) \o <<HexDigits[(n % 10) + 1]>>

\* Variant: the chunk index is left out of the hashed string.
HashedString_NoIndex(content, source, chunkIndex) ==
    source \o <<"-">> \o content

\* `${source}-${chunkIndex}-${content}`
HashedString(content, source, chunkIndex) ==
    source \o <<"-">> \o ToDecimal(chunkIndex) \o <<"-">> \o content

HexByte(b) == <<HexDigits[(b \div 16) + 1], HexDigits[(b % 16) + 1]>>

RECURSIVE HexOf(_)
HexOf(msg) ==
    IF msg = <<>> THEN <<>>
    ELSE HexByte(TokenCode(Head(msg))) \o HexOf(Tail(msg))

DigestLength == 64

\* createHash('sha256').update(msg).digest('hex'): SHA-256 taken as free of
\* collisions on the messages tried: the bytes of the message in hex, left
\* padded to the 64 hex digits of a 256-bit digest.
Sha256Hex(msg) ==
    LET h == HexOf(msg)
    IN  [i \in 1..(DigestLength - Len(h)) |-> "0"] \o h

generateChunkId(content, source, chunkIndex) ==
    Sha256Hex(HashedString(content, source, chunkIndex))

HashContents == {<<>>, <<"a">>, <<"1", "-", "a">>, <<"a", "-", "1">>}
HashSources == {<<"a">>, <<"a", "-", "1">>, <<"b", ".html">>}

HashArguments ==
    [content : HashContents, source : HashSources,
     chunkIndex : 0..MaxChunkIndex]

\* generateChunkId is called on the first triple, on it again, and on the
\* second triple.
GenerateChunkId ==
    /\ hashIds = <<>>
    /\ hashIds' =
           <<generateChunkId(hashArgs[1].content, hashArgs[1].source,
                             hashArgs[1].chunkIndex),
             generateChunkId(hashArgs[1].content, hashArgs[1].source,
                             hashArgs[1].chunkIndex),
             generateChunkId(hashArgs[2].content, hashArgs[2].source,
                             hashArgs[2].chunkIndex)>>
    /\ UNCHANGED <<hashArgs, chatVars, ingestVars, storeVars, loaderVars,
                   historyVars>>

HashStart ==
    /\ hashArgs \in HashArguments \X HashArguments
    /\ hashIds = <<>>

----------------------------------------------------------------------------
(* processors/document-processor.ts: processFile, loadDocuments *)

MaxFiles == 4       \* files in config.dataPath
ChunkTokens == 2    \* config.chunkSize, in tokens
OverlapTokens == 1  \* config.chunkOverlap, in tokens

FileNames == << <<"a", ".html">>, <<"notes", ".txt">>, <<"b", ".html">>,
                <<"c", ".html">>, <<"a", "b", ".html">>, <<"a", "c", ".html">> >>

\* What a file of the data directory can be: one readFile rejects on, one
\* cheerio throws on, one whose body is whitespace, one with a title and a
\* short body, one without a title and with a body of several chunks.
FileKinds == {"unreadable", "malformed", "blank", "short", "long"}

TitleOf(kind) ==
    IF kind = "long" THEN <<>> ELSE <<"Zonnepanelen">>

BodyOf(kind) ==
    IF kind = "blank" THEN <<" ">>
    ELSE IF kind = "short" THEN <<" ", "zon", " ">>
    ELSE <<"zon", "paneel", "laad", "paal">>

\* file.endsWith('.html')
EndsWithHtml(name) == name # <<>> /\ name[Len(name)] = ".html"

\* The data directories tried: every .html file of any kind, next to a file
\* of another extension.
Directories ==
    {[i \in 1..MaxFiles |-> [name |-> FileNames[i], kind |-> k[i]]] :
        k \in {kinds \in [1..MaxFiles -> FileKinds] :
                  \A i \in 1..MaxFiles :
                      ~EndsWithHtml(FileNames[i]) => kinds[i] = "short"}}

\* fileName.replace('.html', ''): the first occurrence is removed.
RECURSIVE ReplaceHtml(_)
ReplaceHtml(name) ==
    IF name = <<>> THEN <<>>
    ELSE IF Head(name) = ".html" THEN Tail(name)
    ELSE <<Head(name)>> \o ReplaceHtml(Tail(name))

\* The chunks of a text: windows of ChunkTokens tokens, each starting
\* ChunkTokens - OverlapTokens after the one before.
RECURSIVE Windows(_, _)
Windows(text, from) ==
    LET to == Min(from + ChunkTokens - 1, Len(text))
    IN  IF to = Len(text)
        THEN <<SubSeq(text, from, to)>>
        ELSE <<SubSeq(text, from, to)>>
                 \o Windows(text, from + ChunkTokens - OverlapTokens)

\* new RecursiveCharacterTextSplitter({chunkSize, chunkOverlap}) and
\* splitDocuments: the constructor throws when the overlap is not smaller
\* than the chunk size.
splitDocuments(text) ==
    IF OverlapTokens >= ChunkTokens
    THEN [ok |-> FALSE, chunks |-> <<>>]
    ELSE [ok |-> TRUE, chunks |-> Windows(text, 1)]

\* Variant: chunkIndex counts from one.
documentsWithMetadata_OneBased(chunks, fileName, title) ==
    [index \in 1..Len(chunks) |->
        [pageContent |-> chunks[index],
         metadata |-> [source |-> fileName,
                       title |-> title,
                       chunkIndex |-> index,
                       chunkId |-> generateChunkId(chunks[index], fileName,
                                                   index)]]]

\* chunks.map((chunk, index) => new Document({...})): index counts from zero.
documentsWithMetadata(chunks, fileName, title) ==
    [index \in 1..Len(chunks) |->
        [pageContent |-> chunks[index],
         metadata |-> [source |-> fileName,
                       title |-> title,
                       chunkIndex |-> index - 1,
                       chunkId |-> generateChunkId(chunks[index], fileName,
                                                   index - 1)]]]

\* Variant: no try/catch around the body of processFile.
processFile_NoCatch(fileName, kind) ==
    IF kind \in {"unreadable", "malformed"}
    THEN Throw(CollaboratorError)
    ELSE LET title == IF TitleOf(kind) # <<>> THEN TitleOf(kind)
                      ELSE ReplaceHtml(fileName)
             textContent == Trim(BodyOf(kind))
         IN  IF Trim(textContent) = <<>>
             THEN Return(<<>>)
             ELSE LET split == splitDocuments(textContent)
                  IN  IF ~split.ok
                      THEN Throw(CollaboratorError)
                      ELSE Return(documentsWithMetadata(split.chunks,
                                                        fileName, title))

\* processFile(fileName): what its promise settles with.
processFile(fileName, kind) ==
    IF kind \in {"unreadable", "malformed"}
    THEN Return(<<>>)
    ELSE LET title == IF TitleOf(kind) # <<>> THEN TitleOf(kind)
                      ELSE ReplaceHtml(fileName)
             textContent == Trim(BodyOf(kind))
         IN  IF Trim(textContent) = <<>>
             THEN Return(<<>>)
             ELSE LET split == splitDocuments(textContent)
                  IN  IF ~split.ok
                      THEN Return(<<>>)
                      ELSE Return(documentsWithMetadata(split.chunks,
                                                        fileName, title))

\* allDocumentArrays.flat()
RECURSIVE Flat(_)
Flat(arrays) ==
    IF arrays = <<>> THEN <<>> ELSE Head(arrays) \o Flat(Tail(arrays))

KindOf(dir, fileName) ==
    dir[CHOOSE i \in 1..Len(dir) : dir[i].name = fileName].kind

\* loadDocuments() up to `await Promise.all(...)`: readdir, the .html
\* filter, and one processFile call per file. A second call starts when the
\* first is over.
LoadDocuments ==
    /\ lpc = "start" \/ (lpc = "done" /\ firstRun = NoResult)
    /\ firstRun' = IF lpc = "done" THEN loadResult ELSE firstRun
    /\ taskResult' = <<>>
    /\ finishOrder' = <<>>
    /\ \E readdirOk \in BOOLEAN :
        IF readdirOk
        THEN /\ htmlFiles' = SelectSeq([i \in 1..Len(dataDir) |-> dataDir[i].name],
                                       EndsWithHtml)
             /\ taskPending' = 1..Len(htmlFiles')
             /\ loadResult' = NoResult
             /\ lpc' = "tasks"
        ELSE /\ htmlFiles' = <<>>
             /\ taskPending' = {}
             /\ loadResult' = Throw(CollaboratorError)
             /\ lpc' = "done"
    /\ UNCHANGED <<dataDir, chatVars, ingestVars, storeVars, hashVars, historyVars>>

\* Variant: the chunks of a file are numbered after the chunks of the files
\* that finished before it.
ProcessFileSettled_SharedCounter ==
    /\ lpc = "tasks"
    /\ \E i \in taskPending :
        LET base == Len(Flat([j \in 1..Len(finishOrder) |->
                                  taskResult[finishOrder[j]].value]))
            own == processFile(htmlFiles[i], KindOf(dataDir, htmlFiles[i])).value
            renumbered ==
                [n \in 1..Len(own) |->
                    [own[n] EXCEPT
                        !.metadata.chunkIndex = base + n - 1,
                        !.metadata.chunkId =
                            generateChunkId(own[n].pageContent, htmlFiles[i],
                                            base + n - 1)]]
        IN  /\ taskPending' = taskPending \ {i}
            /\ taskResult' = [j \in DOMAIN taskResult \cup {i} |->
                                 IF j = i THEN Return(renumbered)
                                 ELSE taskResult[j]]
            /\ finishOrder' = Append(finishOrder, i)
    /\ UNCHANGED <<dataDir, lpc, htmlFiles, loadResult, firstRun,
                   chatVars, ingestVars, storeVars, hashVars, historyVars>>

\* The processFile promise of one file settles.
ProcessFileSettled ==
    /\ lpc = "tasks"
    /\ \E i \in taskPending :
        /\ taskPending' = taskPending \ {i}
        /\ taskResult' = [j \in DOMAIN taskResult \cup {i} |->
                             IF j = i
                             THEN processFile(htmlFiles[i],
                                              KindOf(dataDir, htmlFiles[i]))
                             ELSE taskResult[j]]
        /\ finishOrder' = Append(finishOrder, i)
    /\ UNCHANGED <<dataDir, lpc, htmlFiles, loadResult, firstRun,
                   chatVars, ingestVars, storeVars, hashVars, historyVars>>

\* Variant: the arrays are collected in the order the promises settled.
LoadDocumentsSettled_CompletionOrder ==
    /\ lpc = "tasks"
    /\ taskPending = {}
    /\ loadResult' =
           IF \E i \in DOMAIN taskResult : taskResult[i].kind = "throw"
           THEN Throw(CollaboratorError)
           ELSE Return(Flat([i \in 1..Len(finishOrder) |->
                                taskResult[finishOrder[i]].value]))
    /\ lpc' = "done"
    /\ UNCHANGED <<dataDir, htmlFiles, taskPending, taskResult, finishOrder,
                   firstRun, chatVars, ingestVars, storeVars, hashVars, historyVars>>

\* Promise.all settles: a rejection is rethrown by the catch block of
\* loadDocuments, otherwise the arrays are flattened in the order of htmlFiles.
LoadDocumentsSettled ==
    /\ lpc = "tasks"
    /\ taskPending = {}
    /\ loadResult' =
           IF \E i \in DOMAIN taskResult : taskResult[i].kind = "throw"
           THEN Throw(CollaboratorError)
           ELSE Return(Flat([i \in 1..Len(htmlFiles) |-> taskResult[i].value]))
    /\ lpc' = "done"
    /\ UNCHANGED <<dataDir, htmlFiles, taskPending, taskResult, finishOrder,
                   firstRun, chatVars, ingestVars, storeVars, hashVars, historyVars>>

LoaderStart ==
    /\ dataDir \in Directories
    /\ lpc = "start"
    /\ htmlFiles = <<>>
    /\ taskPending = {}
    /\ taskResult = <<>>
    /\ finishOrder = <<>>
    /\ loadResult = NoResult
    /\ firstRun = NoResult

----------------------------------------------------------------------------
(* index.ts: InteractiveChatbot *)

MaxTurns == 7       \* most calls made on one InteractiveChatbot

HistoryLimit == 10  \* messages kept in conversationHistory

\* response.answer of the answers RAGChatbot.generateAnswer returns.
Answers == {<<"Ja">>, FallbackAnswer}

\* What `await this.chatbot.generateAnswer(query)` settles with.
ChatbotOutcomes ==
    {Return(a) : a \in Answers}
        \cup {Throw(NotLoadedError), Throw(CollaboratorError)}

Message(role, content) == [role |-> role, content |-> content]

\* Variant: slice(0, n) keeps the oldest messages.
ArraySlice_Oldest(a, n) ==
    SubSeq(a, 1, Min(n, Len(a)))

\* Array.prototype.slice(-n): the last n elements, all when there are fewer.
ArraySlice(a, n) ==
    SubSeq(a, Len(a) - Min(n, Len(a)) + 1, Len(a))

\* The state of conversationHistory after a generateAnswer call that got
\* `answer`: the two pushes, then the cut to the last HistoryLimit messages.
PushExchange(history, query, answer) ==
    LET pushed == history \o <<Message("user", query),
                               Message("assistant", answer)>>
    IN  IF Len(pushed) > HistoryLimit
        THEN ArraySlice(pushed, HistoryLimit)
        ELSE pushed

\* InteractiveChatbot.generateAnswer(query): a rejection of the inner call
\* leaves the method before the pushes.
InteractiveGenerateAnswer ==
    /\ turns < MaxTurns
    /\ \E query \in Queries, response \in ChatbotOutcomes :
        IF response.kind = "throw"
        THEN /\ lastTurn' = [name |-> "generateAnswer", raised |-> TRUE,
                             before |-> conversationHistory]
             /\ UNCHANGED <<conversationHistory, transcript>>
        ELSE /\ conversationHistory' =
                    PushExchange(conversationHistory, query, response.value)
             /\ transcript' = Append(transcript,
                                     [query |-> query, answer |-> response.value])
             /\ lastTurn' = [name |-> "generateAnswer", raised |-> FALSE,
                             before |-> conversationHistory]
    /\ turns' = turns + 1
    /\ UNCHANGED <<chatVars, ingestVars, storeVars, loaderVars, hashVars>>

\* InteractiveChatbot.clearHistory().
ClearHistory ==
    /\ turns < MaxTurns
    /\ conversationHistory' = <<>>
    /\ transcript' = <<>>
    /\ lastTurn' = [name |-> "clearHistory", raised |-> FALSE,
                    before |-> conversationHistory]
    /\ turns' = turns + 1
    /\ UNCHANGED <<chatVars, ingestVars, storeVars, loaderVars, hashVars>>

\* A new InteractiveChatbot; also the state of one that is never called.
HistoryIdle ==
    /\ conversationHistory = <<>>
    /\ transcript = <<>>
    /\ turns = 0
    /\ lastTurn = [name |-> "none", raised |-> FALSE, before |-> <<>>]

----------------------------------------------------------------------------
(* Specifications *)

ChatInit ==
    /\ hits \in Rankings
    /\ vectorStore = "null"
    /\ usingChroma = FALSE
    /\ op = [name |-> "new RAGChatbot", args |-> <<>>]
    /\ calls = <<>>
    /\ result = NoResult

ChatIdle ==
    /\ hits = <<>>
    /\ vectorStore = "null"
    /\ usingChroma = FALSE
    /\ op = [name |-> "none", args |-> <<>>]
    /\ calls = <<>>
    /\ result = NoResult

Init ==
    ChatInit /\ IngestIdle /\ StoreIdle /\ LoaderIdle /\ HashIdle /\ HistoryIdle

Next ==
    \/ LoadVectorStore
    \/ RetrieveRelevantDocuments
    \/ GenerateAnswer
    \/ GetVectorStoreInfo

Spec == Init /\ [][Next]_vars

IngestInit ==
    IngestStart /\ ChatIdle /\ StoreIdle /\ LoaderIdle /\ HashIdle /\ HistoryIdle

IngestNext ==
    \/ CreateVectorStoreWithChromaDB
    \/ SubmitWave
    \/ BatchInserted
    \/ BatchFailed
    \/ WaveSettled
    \/ ReturnChromaStore
    \/ BuildMemoryStore
    \/ EmbedSnapshot
    \/ WriteSnapshot

IngestSpec == IngestInit /\ [][IngestNext]_vars

StoreInit ==
    StoreStart /\ ChatIdle /\ IngestIdle /\ LoaderIdle /\ HashIdle /\ HistoryIdle

StoreNext ==
    \/ CreateVectorStore
    \/ CreateFallbackMemoryStore
    \/ LoadFallbackMemoryStore
    \/ EmbedQueryResolved
    \/ EmbedQueryRejected
    \/ WriteSnapshotFile

StoreSpec == StoreInit /\ [][StoreNext]_vars

HashInit ==
    HashStart /\ ChatIdle /\ IngestIdle /\ StoreIdle /\ LoaderIdle /\ HistoryIdle

HashNext == GenerateChunkId

HashSpec == HashInit /\ [][HashNext]_vars

LoaderInit ==
    LoaderStart /\ ChatIdle /\ IngestIdle /\ StoreIdle /\ HashIdle /\ HistoryIdle

LoaderNext == LoadDocuments \/ ProcessFileSettled \/ LoadDocumentsSettled

LoaderSpec == LoaderInit /\ [][LoaderNext]_vars

HistoryInit ==
    /\ HistoryIdle
    /\ ChatIdle /\ IngestIdle /\ StoreIdle /\ LoaderIdle /\ HashIdle

HistoryNext ==
    \/ InteractiveGenerateAnswer
    \/ ClearHistory

HistorySpec == HistoryInit /\ [][HistoryNext]_vars

----------------------------------------------------------------------------
(* Properties of RAGChatbot, checked under Spec *)

Answered == op.name = "generateAnswer"

\* The similaritySearch call of the last operation resolved with a list.
Retrieved ==
    /\ calls # <<>>
    /\ calls[1].svc = "similaritySearch"
    /\ calls[1].ok

RetrievedDocs == calls[1].docs

LLMInvocations == {i \in 1..Len(calls) : calls[i].svc = "llm.invoke"}

\* C1: when similaritySearch returns an empty list, generateAnswer returns
\* exactly the fixed "Ik kan deze vraag niet beantwoorden ..." response with
\* no sources and foundRelevantInfo false, and llm.invoke is not called.
C1_EmptyRetrievalFallback ==
    (Answered /\ Retrieved /\ RetrievedDocs = <<>>) =>
        /\ result = Return([answer |-> FallbackAnswer, sources |-> <<>>,
                            foundRelevantInfo |-> FALSE])
        /\ LLMInvocations = {}

C1_Witness ==
    /\ Answered /\ Retrieved /\ RetrievedDocs = <<>>
    /\ result.kind = "return"

\* C2: when retrieval returns at least one chunk and the LLM invocation fails
\* in any way, generateAnswer does not throw: it returns the fixed apology
\* with no sources and foundRelevantInfo false.
C2_LLMFailureAbsorbed ==
    (Answered /\ Retrieved /\ RetrievedDocs # <<>> /\ op.args.llm # "reply") =>
        result = Return([answer |-> ApologyAnswer, sources |-> <<>>,
                         foundRelevantInfo |-> FALSE])

C2_Witness ==
    /\ Answered /\ Retrieved /\ RetrievedDocs # <<>>
    /\ op.args.llm = "badContent"
    /\ result.kind = "return"

\* C3: every ChatResponse generateAnswer returns, whatever the retrieval
\* result and the LLM outcome, has no sources when foundRelevantInfo is false.
C3_NotFoundHasNoSources ==
    (Answered /\ result.kind = "return") =>
        (~result.value.foundRelevantInfo => result.value.sources = <<>>)

C3_Witness ==
    /\ Answered /\ Retrieved /\ Len(RetrievedDocs) > 1
    /\ op.args.llm = "reject"
    /\ result.kind = "return"
    /\ ~result.value.foundRelevantInfo

RetrievedSource(i) == RetrievedDocs[i].metadata.source

FirstSeen(source) ==
    CHOOSE i \in 1..Len(RetrievedDocs) :
        /\ RetrievedSource(i) = source
        /\ \A j \in 1..(i - 1) : RetrievedSource(j) # source

\* C4: on a successful answer, sources holds each distinct metadata.source of
\* the retrieved chunks exactly once, in order of first occurrence.
C4_SourcesDedupFirstSeen ==
    (Answered /\ result.kind = "return" /\ result.value.foundRelevantInfo) =>
        LET sources == result.value.sources
        IN  /\ \A i \in 1..Len(RetrievedDocs) :
                   Cardinality({j \in 1..Len(sources) :
                                   sources[j] = RetrievedSource(i)}) = 1
            /\ \A j \in 1..Len(sources) :
                   \E i \in 1..Len(RetrievedDocs) : sources[j] = RetrievedSource(i)
            /\ \A j, k \in 1..Len(sources) :
                   j < k => FirstSeen(sources[j]) < FirstSeen(sources[k])

C4_Witness ==
    /\ Answered /\ result.kind = "return" /\ result.value.foundRelevantInfo
    /\ Len(RetrievedDocs) = 4
    /\ <<RetrievedSource(1), RetrievedSource(2), RetrievedSource(3),
         RetrievedSource(4)>> = <<"A", "B", "A", "C">>
    /\ result.value.sources = <<"A", "B", "C">>

\* C5: retrieveRelevantDocuments and generateAnswer on a chatbot with no
\* loaded vector store throw "Vector store not loaded. Call loadVectorStore()
\* first."; they return no response and call neither the store nor the LLM.
C5_NotLoadedIsHardError ==
    (op.name \in {"generateAnswer", "retrieveRelevantDocuments"}
        /\ vectorStore = "null") =>
        /\ result = Throw(NotLoadedError)
        /\ calls = <<>>

C5_Witness ==
    /\ Answered
    /\ vectorStore = "null"
    /\ result.kind = "throw"

\* C6: once loadVectorStore has succeeded, every generateAnswer call, whatever
\* its outcome, leaves a backend loaded and is not refused with "Vector store
\* not loaded": the chatbot stays Ready over any sequence of such calls.
C6_AnswerStaysReady ==
    [][(vectorStore # "null" /\ op'.name = "generateAnswer") =>
          (vectorStore' # "null" /\ result' # Throw(NotLoadedError))]_vars

C6_Witness ==
    /\ Answered
    /\ vectorStore # "null"
    /\ result.kind = "throw"
    /\ result.error = CollaboratorError

\* C7: generateAnswer and retrieveRelevantDocuments leave vectorStore and
\* usingChroma unchanged, query the store loadVectorStore chose and never
\* re-run backend selection, also when the query against that store fails.
C7_BackendFixedForSession ==
    [][op'.name \in {"generateAnswer", "retrieveRelevantDocuments"} =>
          /\ vectorStore' = vectorStore
          /\ usingChroma' = usingChroma
          /\ \A i \in 1..Len(calls') :
                 calls'[i].svc = "similaritySearch" => calls'[i].store = vectorStore
          /\ \A i \in 1..Len(calls') :
                 calls'[i].svc \in {"similaritySearch", "llm.invoke"}]_vars

C7_Witness ==
    /\ Answered
    /\ vectorStore = "chroma"
    /\ usingChroma
    /\ calls # <<>>
    /\ ~calls[1].ok
    /\ result.kind = "throw"

Loaded == op.name = "loadVectorStore"

ProbeCalls == {"new Chroma", "chroma.similaritySearch('test', 1)"}

\* Every read of the snapshot comes after a failed step of the probe.
SnapshotOnlyAfterFailedProbe ==
    \A j \in 1..Len(calls) :
        calls[j].svc = "readFile" =>
            \E i \in 1..(j - 1) : calls[i].svc \in ProbeCalls /\ ~calls[i].ok

\* C8: loadVectorStore probes ChromaDB first with a trivial similarity query
\* and uses ChromaDB if the probe succeeds; only if the probe fails does it
\* read the JSON snapshot and use the memory store; if the probe fails and
\* the snapshot cannot be loaded it throws "No vector store available" and
\* sets no backend (vectorStore and usingChroma stay as they were).
C8_BackendSelectionOrder ==
    /\ [](Loaded =>
            /\ calls[1].svc = "new Chroma"
            /\ SnapshotOnlyAfterFailedProbe
            /\ (op.args.probe = "ok") =>
                   /\ vectorStore = "chroma" /\ usingChroma
                   /\ result.kind = "return"
                   /\ \A i \in 1..Len(calls) : calls[i].svc # "readFile"
                   /\ calls[Len(calls)] = Call("chroma.similaritySearch('test', 1)", TRUE)
            /\ (op.args.probe # "ok") =>
                   /\ \E i \in 1..Len(calls) : calls[i].svc = "readFile"
                   /\ (op.args.snap = "valid" /\ op.args.embedOk) =>
                          /\ vectorStore = "memory" /\ ~usingChroma
                          /\ result.kind = "return"
                   /\ ~(op.args.snap = "valid" /\ op.args.embedOk) =>
                          result = Throw(NoStoreError))
    /\ [][(op'.name = "loadVectorStore" /\ result'.kind = "throw") =>
             (vectorStore' = vectorStore /\ usingChroma' = usingChroma)]_vars

C8_Witness ==
    /\ Loaded
    /\ op.args.probe = "searchThrows"
    /\ op.args.snap = "valid"
    /\ op.args.embedOk
    /\ vectorStore = "memory"
    /\ ~usingChroma

----------------------------------------------------------------------------
(* Properties of createVectorStoreWithChromaDB, checked under IngestSpec *)

\* The run took the ChromaDB branch: createChromaVectorStore returned a store.
ChromaPath ==
    \E i \in 1..Len(ingestLog) : ingestLog[i] = Call("new Chroma", TRUE)

BatchPositions == {b - 1 : b \in 1..Len(documentBatches)}

\* C9: on the ChromaDB branch, whichever addDocuments calls fail, the call
\* never throws, every submitted batch is in flight, inserted or recorded as
\* failed, each failed batch is reported under its 1-based batch number, and
\* at return every batch was submitted and every batch that did not fail is
\* in ChromaDB.
C9_BatchFailureIsolated ==
    ChromaPath =>
        /\ ingestResult.kind # "throw"
        /\ failedReports = {pos + 1 : pos \in failed}
        /\ \A pos \in submitted :
               \/ pos \in failed
               \/ documentBatches[pos + 1] \in chromaContent
               \/ \E t \in inflight : t.pos = pos
        /\ pc = "done" =>
               /\ ingestResult = Return("chroma")
               /\ submitted = BatchPositions
               /\ inflight = {}
               /\ \A pos \in BatchPositions \ failed :
                      documentBatches[pos + 1] \in chromaContent

C9_Witness ==
    /\ ChromaPath
    /\ pc = "done"
    /\ 2 \in failed
    /\ Cardinality(failed) = 2
    /\ CONCURRENCY_LIMIT \in submitted \ failed
    /\ documentBatches[2] \in chromaContent

InChroma(c) == \E slice \in chromaContent : Holds(slice, c)

\* The snapshot file was written by this run and holds chunk c.
InSnapshot(c) == snapshot.run = "this" /\ Holds(snapshot.documents, c)

InFailedBatch(c) == \E pos \in failed : Holds(documentBatches[pos + 1], c)

\* C10: when createVectorStoreWithChromaDB returns, every chunk loadDocuments
\* produced is in ChromaDB or in the snapshot written by the run; the chunks
\* of batches whose insertion failed are not in ChromaDB and are in the
\* snapshot.
C10_AllChunksRetrievable ==
    (pc = "done" /\ ingestResult.kind = "return") =>
        \A c \in 0..(documents - 1) :
            /\ InChroma(c) \/ InSnapshot(c)
            /\ InFailedBatch(c) => (~InChroma(c) /\ InSnapshot(c))

IngestCalled(svc, ok) ==
    \E i \in 1..Len(ingestLog) : ingestLog[i] = Call(svc, ok)

\* The snapshot file holds every chunk loadDocuments returned and was written
\* by this run.
FullSnapshotWritten ==
    /\ IngestCalled("writeFile", TRUE)
    /\ snapshot = [run |-> "this", documents |-> Slice(0, documents, documents)]

\* C11: on the ChromaDB branch, when the wave loop is over and
\* createVectorStoreWithChromaDB has returned, the snapshot file has been
\* written by this run from the full chunk set.
C11_SnapshotWrittenAfterWaves ==
    (ChromaPath /\ pc = "done" /\ wave >= totalBatches(documents)) =>
        FullSnapshotWritten

\* ChromaDB was unreachable during the run: every addDocuments call rejected.
ChromaUnreachable ==
    /\ ChromaPath
    /\ chromaContent = {}
    /\ failed = BatchPositions

\* C12: when useFallback is not set and ChromaDB could not be constructed or
\* was unreachable during ingestion, a call that returns has returned the
\* MemoryVectorStore with the full snapshot written, never a ChromaDB handle
\* that holds nothing.
C12_UnavailableChromaFallsBack ==
    (/\ pc = "done"
     /\ ~useFallback
     /\ ingestResult.kind = "return"
     /\ IngestCalled("new Chroma", FALSE) \/ ChromaUnreachable) =>
        /\ ingestResult = Return("memory")
        /\ FullSnapshotWritten

\* C13: with useFallback = true nothing is done on ChromaDB (no client is
\* constructed, no batch is handed to addDocuments), and a call that returns
\* has returned the MemoryVectorStore built from all loaded chunks, with the
\* snapshot of all of them written.
C13_ForceLocalBypassesChroma ==
    useFallback =>
        /\ ~IngestCalled("new Chroma", TRUE)
        /\ ~IngestCalled("new Chroma", FALSE)
        /\ submitted = {} /\ inflight = {} /\ chromaContent = {} /\ failed = {}
        /\ ingestResult.kind = "return" =>
               /\ ingestResult = Return("memory")
               /\ IngestCalled("MemoryVectorStore.fromDocuments", TRUE)
               /\ documents > 0
               /\ FullSnapshotWritten

C13_Witness ==
    /\ useFallback
    /\ pc = "done"
    /\ ingestResult = Return("memory")
    /\ documents = (MaxBatches - 1) * CHROMADB_BATCH_SIZE + 1
    /\ snapshot.run = "this"

----------------------------------------------------------------------------
(* Properties of createVectorStore and createFallbackMemoryStore, checked   *)
(* under StoreSpec                                                          *)

StoreCalled(svc) == \E i \in 1..Len(storeLog) : storeLog[i].svc = svc

\* loadDocuments() resolved with an empty list.
LoadedNothing ==
    /\ StoreCalled("loadDocuments")
    /\ storeLog[1].ok
    /\ storeDocs = <<>>

\* C14: when loadDocuments yields zero chunks, createVectorStore ends in an
\* error: it never returns a store, makes no embedQuery request and writes no
\* snapshot.
C14_ZeroChunksIsHardError ==
    LoadedNothing =>
        /\ ~StoreCalled("embedQuery")
        /\ ~StoreCalled("writeFile")
        /\ ~snapshotFile.exists
        /\ storeResult.kind # "return"

\* C20: every snapshot createFallbackMemoryStore writes has as many
\* embeddings as documents, and embeddings[i] is the vector of
\* documents[i].pageContent, in whatever order the embedQuery requests
\* resolved.
C20_SnapshotEmbeddingsAligned ==
    snapshotFile.exists =>
        /\ Len(snapshotFile.documents) = Len(snapshotFile.embeddings)
        /\ Len(snapshotFile.documents) = Len(storeDocs)
        /\ \A i \in 1..Len(snapshotFile.documents) :
               snapshotFile.embeddings[i] =
                   EmbeddingOf(snapshotFile.documents[i].pageContent)

C20_Witness ==
    /\ snapshotFile.exists
    /\ Len(snapshotFile.documents) = MaxSnapshotDocs
    /\ settleOrder[1] = MaxSnapshotDocs
    /\ settleOrder[MaxSnapshotDocs] = 1
    /\ snapshotFile.documents[1].pageContent #
           snapshotFile.documents[MaxSnapshotDocs].pageContent

----------------------------------------------------------------------------
(* Properties of generateChunkId, checked under HashSpec *)

\* The two triples differ in exactly one of content, source and chunkIndex.
DifferInOneArgument ==
    Cardinality({f \in {"content", "source", "chunkIndex"} :
                     hashArgs[1][f] # hashArgs[2][f]}) = 1

IsSha256Hex(id) ==
    /\ Len(id) = 64
    /\ \A i \in 1..Len(id) : \E d \in 1..16 : id[i] = HexDigits[d]

----------------------------------------------------------------------------
(* Properties of loadDocuments, checked under LoaderSpec *)

\* The file yields no chunk: it cannot be read, cannot be parsed, or its body
\* is empty once trimmed.
Failing(file) ==
    \/ file.kind \in {"unreadable", "malformed"}
    \/ Trim(BodyOf(file.kind)) = <<>>

\* loadDocuments over a directory, one file after the other.
LoadedFrom(dir) ==
    Flat([i \in 1..Len(dir) |->
             IF EndsWithHtml(dir[i].name)
             THEN processFile(dir[i].name, dir[i].kind).value
             ELSE <<>>])

\* The directory without its failing files.
WithoutFailing(dir) == SelectSeq(dir, LAMBDA file : ~Failing(file))

Returned == lpc = "done" /\ loadResult.kind = "return"

\* C15: whichever files fail or have a blank body, loadDocuments does not
\* throw once readdir has listed the files, no chunk of its result comes from such a
\* file, and the result is what it is for the directory without those files.
C15_FailingFilesContributeNothing ==
    (lpc = "done" /\ htmlFiles # <<>>) =>
        /\ loadResult.kind = "return"
        /\ \A n \in 1..Len(loadResult.value) :
               \A i \in 1..Len(dataDir) :
                   Failing(dataDir[i]) =>
                       loadResult.value[n].metadata.source # dataDir[i].name
        /\ loadResult.value = LoadedFrom(WithoutFailing(dataDir))

C15_Witness ==
    /\ Returned
    /\ dataDir[1].kind = "unreadable"
    /\ dataDir[3].kind = "long"
    /\ dataDir[MaxFiles].kind = "blank"
    /\ loadResult.value # <<>>
    /\ finishOrder[1] # 1

\* The chunks of the returned list that come from the file, in list order.
ChunksFrom(docs, fileName) ==
    SelectSeq(docs, LAMBDA doc : doc.metadata.source = fileName)

\* C16: in the list loadDocuments returns, the chunks of each file carry
\* chunkIndex 0..n-1 in split order without gaps, no two chunks share
\* (source, chunkIndex), and every chunk has exactly the metadata source,
\* title, chunkIndex and chunkId.
C16_ChunkIndexesDense ==
    Returned =>
        LET docs == loadResult.value
        IN  /\ \A f \in 1..Len(dataDir) :
                   LET mine == ChunksFrom(docs, dataDir[f].name)
                   IN  \A k \in 1..Len(mine) :
                           /\ mine[k].metadata.chunkIndex = k - 1
                           /\ mine[k].pageContent =
                                  splitDocuments(Trim(BodyOf(dataDir[f].kind)))
                                      .chunks[k]
            /\ \A i, j \in 1..Len(docs) :
                   (/\ docs[i].metadata.source = docs[j].metadata.source
                    /\ docs[i].metadata.chunkIndex = docs[j].metadata.chunkIndex)
                       => i = j
            /\ \A i \in 1..Len(docs) :
                   DOMAIN docs[i].metadata =
                       {"source", "title", "chunkIndex", "chunkId"}

C16_Witness ==
    /\ Returned
    /\ \E i, j \in 1..Len(loadResult.value) :
           /\ loadResult.value[i].metadata.source = FileNames[1]
           /\ loadResult.value[j].metadata.source = FileNames[3]
           /\ loadResult.value[i].metadata.chunkIndex = 1
           /\ loadResult.value[j].metadata.chunkIndex = 1
    /\ finishOrder[1] = 2

ChunkIds(docs) == {docs[i].metadata.chunkId : i \in 1..Len(docs)}

\* C18: two loadDocuments calls over the same unchanged directory that both
\* return give the same set of chunkId values, whatever order the processFile
\* promises of either call settled in.
C18_ChunkIdsStableAcrossRuns ==
    (Returned /\ firstRun.kind = "return") =>
        ChunkIds(loadResult.value) = ChunkIds(firstRun.value)

C18_Witness ==
    /\ Returned
    /\ firstRun.kind = "return"
    /\ Cardinality(ChunkIds(loadResult.value)) > 3
    /\ Len(finishOrder) = 3
    /\ finishOrder[1] = 3
    /\ finishOrder[3] = 1

----------------------------------------------------------------------------
(* Loading the snapshot, checked under Spec *)

\* Calls that have the embedding service compute vectors:
\* MemoryVectorStore.fromDocuments(documents, embeddings) embeds every
\* document it is given with the OpenAIEmbeddings object it is given.
EmbeddingRequests == {"MemoryVectorStore.fromDocuments", "embedQuery"}

\* C19: a loadVectorStore that ends with the memory store loaded from the
\* snapshot has made no call that has the embedding service compute vectors.
C19_SnapshotLoadDoesNotEmbed ==
    (Loaded /\ result.kind = "return" /\ vectorStore = "memory") =>
        \A i \in 1..Len(calls) : calls[i].svc \notin EmbeddingRequests

----------------------------------------------------------------------------
(* Injectivity of the hashed string, checked under HashSpec *)

\* C30: two different (source, chunkIndex, content) triples, a '-' in source
\* or content included, give different hashed strings and so different ids.
C30_HashedStringInjective ==
    (hashIds # <<>> /\ hashArgs[1] # hashArgs[2]) =>
        /\ HashedString(hashArgs[1].content, hashArgs[1].source,
                        hashArgs[1].chunkIndex)
               # HashedString(hashArgs[2].content, hashArgs[2].source,
                              hashArgs[2].chunkIndex)
        /\ hashIds[1] # hashIds[3]

----------------------------------------------------------------------------
(* Order of the list loadDocuments returns, checked under LoaderSpec *)

\* Position of the file in the directory listing.
ListingPosition(fileName) ==
    CHOOSE i \in 1..Len(dataDir) : dataDir[i].name = fileName

\* C28: whatever order the processFile promises settle in, the returned
\* list is the one a file-by-file pass over the directory listing gives:
\* chunks are grouped by file in listing order and, within a file, ascend in
\* chunkIndex.
C28_OrderIndependentOfCompletion ==
    Returned =>
        /\ loadResult.value = LoadedFrom(dataDir)
        /\ \A i, j \in 1..Len(loadResult.value) :
               i < j =>
                   LET a == loadResult.value[i].metadata
                       b == loadResult.value[j].metadata
                   IN  \/ ListingPosition(a.source) < ListingPosition(b.source)
                       \/ /\ a.source = b.source
                          /\ a.chunkIndex < b.chunkIndex

C28_Witness ==
    /\ Returned
    /\ Len(finishOrder) = 3
    /\ finishOrder[1] = 3
    /\ finishOrder[2] = 2
    /\ loadResult.value # <<>>
    /\ loadResult.value[1].metadata.source = FileNames[1]
    /\ loadResult.value[Len(loadResult.value)].metadata.source = FileNames[4]
    /\ loadResult.value[Len(loadResult.value)].metadata.chunkIndex = 2

----------------------------------------------------------------------------
(* getVectorStoreInfo and the prompt, checked under Spec *)

\* C23: in every state of a session, getVectorStoreInfo().isConnected is
\* true exactly when vectorStore is set, usingChroma (type 'ChromaDB') holds
\* only when the store is the ChromaDB one, getVectorStoreInfo returns that
\* record and changes nothing, and a loadVectorStore that throws leaves
\* vectorStore and usingChroma as they were.
C23_StoreInfoMatchesBackend ==
    /\ [](LET info == getVectorStoreInfo(vectorStore, usingChroma)
          IN  /\ info.isConnected <=> vectorStore \in {"chroma", "memory"}
              /\ info.type = "ChromaDB" => vectorStore = "chroma"
              /\ usingChroma => vectorStore = "chroma"
              /\ op.name = "getVectorStoreInfo" => result = Return(info))
    /\ [][(/\ op'.name \in {"loadVectorStore", "getVectorStoreInfo"}
           /\ result'.kind = "throw" \/ op'.name = "getVectorStoreInfo")
             => (vectorStore' = vectorStore /\ usingChroma' = usingChroma)]_vars

C23_Witness ==
    /\ op.name = "getVectorStoreInfo"
    /\ result.kind = "return"
    /\ result.value.isConnected
    /\ result.value.type = "FAISS (MemoryVectorStore)"
    /\ vectorStore = "memory"

\* C27: when similaritySearch returned n >= 1 chunks, generateAnswer calls
\* llm.invoke exactly once, with a prompt whose context has the n entries
\* [1] .. [n], entry i carrying the text of the i-th retrieved chunk, and
\* whose question is the query.
C27_PromptNumbersChunksInOrder ==
    (Answered /\ Retrieved /\ Len(RetrievedDocs) >= 1) =>
        /\ Cardinality(LLMInvocations) = 1
        /\ \A c \in LLMInvocations :
               /\ Len(calls[c].prompt.context) = Len(RetrievedDocs)
               /\ \A i \in 1..Len(RetrievedDocs) :
                      /\ calls[c].prompt.context[i].label = i
                      /\ calls[c].prompt.context[i].text =
                             RetrievedDocs[i].pageContent
               /\ calls[c].prompt.question = op.args.query

C27_Witness ==
    /\ Answered
    /\ Retrieved
    /\ Len(RetrievedDocs) = MaxDocs
    /\ RetrievedDocs[1].pageContent = "t5"
    /\ Cardinality(LLMInvocations) = 1
    /\ op.args.query = "q2"

----------------------------------------------------------------------------
(* Waves and batches of createVectorStoreWithChromaDB, checked under        *)
(* IngestSpec                                                               *)

\* The wave a batch position belongs to.
WaveOf(pos) == pos \div CONCURRENCY_LIMIT

Settled(pos) == pos \in failed \/ documentBatches[pos + 1] \in chromaContent

\* C24: at most 10 addDocuments calls are in flight, all of them of one
\* wave; every other batch submitted so far is of that wave or an earlier one
\* and has settled, and nothing is in flight when a wave is about to start.
C24_WavesSequentialAndBounded ==
    LET flying == {t.pos : t \in inflight}
        waves == {WaveOf(pos) : pos \in flying}
    IN  /\ Cardinality(inflight) <= 10
        /\ Cardinality(waves) <= 1
        /\ flying \subseteq submitted
        /\ \A pos \in submitted \ flying :
               /\ Settled(pos)
               /\ \A w \in waves : WaveOf(pos) <= w
        /\ pc = "wave" => flying = {}

C24_Witness ==
    /\ Cardinality(inflight) = 1
    /\ Cardinality(submitted) = CONCURRENCY_LIMIT + 1
    /\ Cardinality(failed) = 3
    /\ Cardinality(chromaContent) = CONCURRENCY_LIMIT - 3

BatchSize(slice) == slice.to - slice.from

\* C25: for n >= 1 chunks the batch list has ceil(n / 100) batches, each of
\* 1 to 100 chunks, only the last possibly of fewer than 100, and the
\* batches in order cover chunks 0 .. n-1 without gap or overlap, so every
\* chunk is in exactly one batch (looked at when the list has been built and
\* nothing is submitted yet); at return each batch was handed to
\* addDocuments.
C25_BatchesPartitionChunks ==
    (ChromaPath /\ documents >= 1) =>
        LET b == documentBatches
            n == documents
        IN  /\ (Len(b) - 1) * 100 < n /\ n <= Len(b) * 100
            /\ \A i \in 1..Len(b) :
                   /\ 1 <= BatchSize(b[i]) /\ BatchSize(b[i]) <= 100
                   /\ i < Len(b) => BatchSize(b[i]) = 100
            /\ b[1].from = 0
            /\ b[Len(b)].to = n
            /\ \A i \in 1..(Len(b) - 1) : b[i].to = b[i + 1].from
            /\ submitted = {} =>
                   \A c \in 0..(n - 1) :
                       Cardinality({i \in 1..Len(b) : Holds(b[i], c)}) = 1
            /\ pc = "done" => submitted = {i - 1 : i \in 1..Len(b)}

C25_Witness ==
    /\ ChromaPath
    /\ pc = "done"
    /\ documents = CONCURRENCY_LIMIT * CHROMADB_BATCH_SIZE + 1
    /\ Len(documentBatches) = CONCURRENCY_LIMIT + 1
    /\ BatchSize(documentBatches[Len(documentBatches)]) = 1

----------------------------------------------------------------------------
(* Errors that leave the public operations, checked under Spec *)

DocumentedErrors == {NotLoadedError, NoDocumentsError, NoStoreError, ApiKeyError}

\* C22: an exception that leaves generateAnswer is one of the documented
\* hard failures; no failure of a collaborator leaves it as an exception.
C22_OnlyDocumentedErrorsEscape ==
    (Answered /\ result.kind = "throw") =>
        /\ result.error \in DocumentedErrors
        /\ \A i \in 1..Len(calls) : calls[i].ok

----------------------------------------------------------------------------
(* The snapshot write of createFallbackMemoryStore, checked under IngestSpec *)

SnapshotWrites == {i \in 1..Len(ingestLog) : ingestLog[i].svc = "writeFile"}

\* C26: a run calls writeFile at most once, and only after
\* MemoryVectorStore.fromDocuments and the embedQuery requests have
\* succeeded; when either fails there is no write; and the snapshot file
\* changes only in the step whose writeFile succeeds, so that a file left by
\* an earlier run is otherwise untouched.
C26_SingleSnapshotWriteAtEnd ==
    /\ [](/\ Cardinality(SnapshotWrites) <= 1
          /\ \A w \in SnapshotWrites :
                 \E i, j \in 1..(w - 1) :
                     /\ i < j
                     /\ ingestLog[i] = Call("MemoryVectorStore.fromDocuments", TRUE)
                     /\ ingestLog[j] = Call("embedQuery", TRUE)
          /\ (\/ IngestCalled("MemoryVectorStore.fromDocuments", FALSE)
              \/ IngestCalled("embedQuery", FALSE)) =>
                 /\ SnapshotWrites = {}
                 /\ snapshot.run # "this"
          /\ snapshot.run = "this" => IngestCalled("writeFile", TRUE))
    /\ [][snapshot' # snapshot =>
              /\ ingestLog' = Append(ingestLog, Call("writeFile", TRUE))
              /\ snapshot'.run = "this"]_vars

C26_Witness ==
    /\ pc = "done"
    /\ snapshot = OldSnapshot
    /\ IngestCalled("MemoryVectorStore.fromDocuments", TRUE)
    /\ IngestCalled("embedQuery", FALSE)
    /\ ingestResult.kind = "throw"

\* C21: once the snapshot file is written and loadFallbackMemoryStore has
\* run on it, the loader returned an index (not null) that holds the
\* documents of the original index in the same order, and similaritySearch
\* with a fixed query vector returns the same top-k list from both, for every
\* query and every k.
C21_SnapshotRoundTrip ==
    (reloaded.state # "none" /\ storeResult = Return("memory")) =>
        /\ reloaded.state = "loaded"
        /\ [i \in 1..Len(reloaded.index) |-> reloaded.index[i].content]
               = [i \in 1..Len(memoryIndex) |-> memoryIndex[i].content]
        /\ \A q \in DocTexts, k \in 1..TopK :
               similaritySearch(RankingOf(reloaded.index, EmbeddingOf(q)),
                                k, TRUE)
                   = similaritySearch(RankingOf(memoryIndex, EmbeddingOf(q)),
                                      k, TRUE)

----------------------------------------------------------------------------
(* C29: the conversation window of InteractiveChatbot *)

\* The messages of a list of exchanges: question, answer, question, ...
RECURSIVE MessagesOf(_)
MessagesOf(exchanges) ==
    IF exchanges = <<>> THEN <<>>
    ELSE <<Message("user", Head(exchanges).query),
           Message("assistant", Head(exchanges).answer)>>
             \o MessagesOf(Tail(exchanges))

\* The last n exchanges of a list (all of them when there are fewer).
RecentExchanges(exchanges, n) ==
    [i \in 1..Min(n, Len(exchanges)) |->
        exchanges[Len(exchanges) - Min(n, Len(exchanges)) + i]]

\* C29: after any sequence of generateAnswer and clearHistory calls the
\* history has an even length of at most 10, its odd positions are user
\* messages and its even positions assistant messages, and it is exactly the
\* messages of the most recent (at most five) answered exchanges since the
\* last clearHistory; after clearHistory it is empty, and after a
\* generateAnswer that raised it is what it was before the call.
C29_HistoryWindow ==
    /\ Len(conversationHistory) % 2 = 0
    /\ Len(conversationHistory) <= 10
    /\ \A i \in 1..Len(conversationHistory) :
           conversationHistory[i].role =
               IF i % 2 = 1 THEN "user" ELSE "assistant"
    /\ conversationHistory = MessagesOf(RecentExchanges(transcript, 5))
    /\ lastTurn.name = "clearHistory" => conversationHistory = <<>>
    /\ lastTurn.raised => conversationHistory = lastTurn.before

\* Six exchanges were answered, so the oldest one has been cut, and then a
\* generateAnswer call raised: the history still holds ten messages and
\* starts with the second question.
C29_Witness ==
    /\ lastTurn.name = "generateAnswer"
    /\ lastTurn.raised
    /\ Len(transcript) = 6
    /\ Len(conversationHistory) = 10
    /\ transcript[1].query # transcript[2].query
    /\ conversationHistory[1] = Message("user", transcript[2].query)

====
